---- MODULE Spec2Model ----
(***************************************************************************)
(* Model of the inventory application (src/inventory): the relational      *)
(* store behind models.py, the form validation of forms.py and the POST    *)
(* handlers and read views of views.py.                                    *)
(*                                                                         *)
(* Rows are keyed by their integer primary key; a table is a function from *)
(* the set of existing keys to the row's fields.  Dates are day ordinals   *)
(* (integers), so date subtraction `.days` is integer subtraction and      *)
(* `today + timedelta(days=7)` is today + 7.  Name and text columns play   *)
(* no part in any handler's control flow and are left out.                 *)
(***************************************************************************)
EXTENDS Integers, FiniteSets, TLC

VARIABLES categories, locations, items, entries, logs, seq, today, last, inflight

store == <<categories, locations, items, entries, logs, seq>>
vars == <<categories, locations, items, entries, logs, seq, today, last, inflight>>

(***************************************************************************)
(* Bounds of the model.                                                    *)
(***************************************************************************)
MaxCategories == 1
MaxLocations == 2
MaxItems == 2
MaxEntries == 2
MaxLogs == 2
MaxQuantity == 2
MaxToday == 2

(* timedelta(days=7) of the views, days=7 of is_expiring_soon *)
ExpiringWindow == 7
(* the [:5] slice of the dashboard lists *)
DashboardLimit == 5

NULL == -1
FirstDay == 1

(***************************************************************************)
(* Table helpers: INSERT of a row under a fresh key, DELETE of a key set.  *)
(***************************************************************************)
Insert(table, pk, row) == (pk :> row) @@ table
Remove(table, pks) == [k \in (DOMAIN table) \ pks |-> table[k]]
EmptyTable == [k \in {} |-> NULL]

(* the response to the last POST: the view that answered and the fields its
   form (or, for a blocked delete, its error message) reported; no errors
   means the redirect of the success path *)
Response(op, errors) == [op |-> op, errors |-> errors]

(* a request worker between requests; while it runs usage_log_create it
   holds the InventoryEntry instance its form loaded and the posted amount *)
NoRow == [item |-> NULL, quantity |-> 0, storage_location |-> NULL,
          purchase_date |-> NULL, expiration_date |-> NULL]
Idle == [pc |-> "idle", entry |-> NULL, row |-> NoRow, quantity_used |-> 0]
Workers == {1, 2}

Init ==
    /\ categories = {}
    /\ locations = {}
    /\ items = EmptyTable
    /\ entries = EmptyTable
    /\ logs = EmptyTable
    /\ seq = [category |-> 1, location |-> 1, item |-> 1, entry |-> 1, log |-> 1]
    /\ today = FirstDay
    /\ last = Response("none", {})
    /\ inflight = [w \in Workers |-> Idle]

(***************************************************************************)
(* models.py: derived fields of InventoryEntry                             *)
(***************************************************************************)
days_until_expiration(e) == entries[e].expiration_date - today

is_expiring_soon_exclusive(e) ==
    0 < days_until_expiration(e) /\ days_until_expiration(e) <= ExpiringWindow

is_expiring_soon(e) ==
    0 <= days_until_expiration(e) /\ days_until_expiration(e) <= ExpiringWindow

is_expired(e) == days_until_expiration(e) < 0

(***************************************************************************)
(* models.py: derived fields of Item                                       *)
(***************************************************************************)
RECURSIVE SumQuantity(_)
(* sum(entry.quantity for entry in ...) over a set of entry rows *)
SumQuantity(es) ==
    IF es = {} THEN 0
    ELSE LET e == CHOOSE x \in es : TRUE IN
         entries[e].quantity + SumQuantity(es \ {e})

get_total_quantity(i) ==
    SumQuantity({e \in DOMAIN entries : entries[e].item = i})

is_low_stock_inclusive(i) ==
    IF items[i].low_stock_threshold = NULL THEN FALSE
    ELSE get_total_quantity(i) <= items[i].low_stock_threshold

is_low_stock(i) ==
    IF items[i].low_stock_threshold = NULL THEN FALSE
    ELSE get_total_quantity(i) < items[i].low_stock_threshold

(***************************************************************************)
(* models.py: on_delete rules                                              *)
(***************************************************************************)
CascadeLogs_none(es) == {}
LocationProtectedByEntries_none(pk) == {}

(* rows that reach the item through CASCADE foreign keys *)
CascadeEntries(pk) == {e \in DOMAIN entries : entries[e].item = pk}
CascadeLogs(es) == {l \in DOMAIN logs : logs[l].inventory_entry \in es}

(* PROTECT: rows that block the deletion of a category / a location *)
CategoryProtectedBy(pk) == {i \in DOMAIN items : items[i].category = pk}
LocationProtectedByItems(pk) ==
    {i \in DOMAIN items : items[i].default_storage_location = pk}
LocationProtectedByEntries(pk) ==
    {e \in DOMAIN entries : entries[e].storage_location = pk}

(***************************************************************************)
(* forms.py                                                                *)
(***************************************************************************)
ItemForm_clean_low_stock_threshold(threshold) ==
    IF threshold # NULL /\ threshold <= 0 THEN {"low_stock_threshold"} ELSE {}

ItemForm_errors(category, location, threshold) ==
    (IF category \in categories THEN {} ELSE {"category"})
    \cup (IF location \in locations THEN {} ELSE {"default_storage_location"})
    \cup ItemForm_clean_low_stock_threshold(threshold)

InventoryEntryForm_clean_quantity_missing(quantity) == {}

InventoryEntryForm_clean_quantity(quantity) ==
    IF quantity <= 0 THEN {"quantity"} ELSE {}

InventoryEntryForm_clean_reversed(purchase_date, expiration_date) ==
    IF purchase_date # NULL /\ expiration_date # NULL
    THEN IF expiration_date > purchase_date THEN {"expiration_date"} ELSE {}
    ELSE {}

(* NULL stands for a date field left empty: the required field then fails
   on its own and clean() skips the comparison *)
InventoryEntryForm_clean(purchase_date, expiration_date) ==
    IF purchase_date # NULL /\ expiration_date # NULL
    THEN IF expiration_date < purchase_date THEN {"expiration_date"} ELSE {}
    ELSE {}

InventoryEntryForm_errors(item, quantity, location, purchase_date, expiration_date) ==
    (IF item \in DOMAIN items THEN {} ELSE {"item"})
    \cup (IF location \in locations THEN {} ELSE {"storage_location"})
    \cup (IF purchase_date = NULL THEN {"purchase_date"} ELSE {})
    \cup (IF expiration_date = NULL THEN {"expiration_date"} ELSE {})
    \cup InventoryEntryForm_clean_quantity(quantity)
    \cup InventoryEntryForm_clean(purchase_date, expiration_date)

UsageLogForm_queryset_unfiltered == DOMAIN entries

(* UsageLogForm.__init__: the entries the inventory_entry field accepts *)
UsageLogForm_queryset == {e \in DOMAIN entries : entries[e].quantity > 0}

UsageLogForm_clean_quantity_used_strict(quantity_used) ==
    IF quantity_used < 0 THEN {"quantity_used"} ELSE {}

UsageLogForm_clean_quantity_used(quantity_used) ==
    IF quantity_used <= 0 THEN {"quantity_used"} ELSE {}

UsageLogForm_clean_off_by_one(entry, quantity_used) ==
    IF entry \in UsageLogForm_queryset
       /\ UsageLogForm_clean_quantity_used(quantity_used) = {}
    THEN IF quantity_used > entries[entry].quantity + 1 THEN {"quantity_used"} ELSE {}
    ELSE {}

(* clean() compares only when both fields survived their own cleaning *)
UsageLogForm_clean(entry, quantity_used) ==
    IF entry \in UsageLogForm_queryset
       /\ UsageLogForm_clean_quantity_used(quantity_used) = {}
    THEN IF quantity_used > entries[entry].quantity THEN {"quantity_used"} ELSE {}
    ELSE {}

UsageLogForm_errors(entry, quantity_used) ==
    (IF entry \in UsageLogForm_queryset THEN {} ELSE {"inventory_entry"})
    \cup UsageLogForm_clean_quantity_used(quantity_used)
    \cup UsageLogForm_clean(entry, quantity_used)

(***************************************************************************)
(* views.py: reference data and item catalog                               *)
(***************************************************************************)
category_create ==
    /\ categories' = categories \cup {seq.category}
    /\ seq' = [seq EXCEPT !.category = @ + 1]
    /\ last' = Response("category_create", {})
    /\ UNCHANGED <<locations, items, entries, logs, today, inflight>>

location_create ==
    /\ locations' = locations \cup {seq.location}
    /\ seq' = [seq EXCEPT !.location = @ + 1]
    /\ last' = Response("location_create", {})
    /\ UNCHANGED <<categories, items, entries, logs, today, inflight>>

category_delete(pk) ==
    /\ pk \in categories
    /\ IF CategoryProtectedBy(pk) = {}
       THEN /\ categories' = categories \ {pk}
            /\ last' = Response("category_delete", {})
       ELSE /\ categories' = categories
            /\ last' = Response("category_delete", {"protected"})
    /\ UNCHANGED <<locations, items, entries, logs, seq, today, inflight>>

location_delete(pk) ==
    /\ pk \in locations
    /\ IF LocationProtectedByItems(pk) = {} /\ LocationProtectedByEntries(pk) = {}
       THEN /\ locations' = locations \ {pk}
            /\ last' = Response("location_delete", {})
       ELSE /\ locations' = locations
            /\ last' = Response("location_delete", {"protected"})
    /\ UNCHANGED <<categories, items, entries, logs, seq, today, inflight>>

item_create(category, location, threshold) ==
    /\ LET errors == ItemForm_errors(category, location, threshold) IN
       IF errors = {}
       THEN /\ items' = Insert(items, seq.item,
                          [category |-> category,
                           default_storage_location |-> location,
                           low_stock_threshold |-> threshold])
            /\ seq' = [seq EXCEPT !.item = @ + 1]
            /\ last' = Response("item_create", {})
       ELSE /\ UNCHANGED <<items, seq>>
            /\ last' = Response("item_create", errors)
    /\ UNCHANGED <<categories, locations, entries, logs, today, inflight>>

item_delete(pk) ==
    /\ pk \in DOMAIN items
    /\ items' = Remove(items, {pk})
    /\ entries' = Remove(entries, CascadeEntries(pk))
    /\ logs' = Remove(logs, CascadeLogs(CascadeEntries(pk)))
    /\ last' = Response("item_delete", {})
    /\ UNCHANGED <<categories, locations, seq, today, inflight>>

(***************************************************************************)
(* views.py: inventory entries                                             *)
(***************************************************************************)
inventory_entry_create(item, quantity, location, purchase_date, expiration_date) ==
    /\ LET errors == InventoryEntryForm_errors(item, quantity, location,
                                               purchase_date, expiration_date) IN
       IF errors = {}
       THEN /\ entries' = Insert(entries, seq.entry,
                            [item |-> item, quantity |-> quantity,
                             storage_location |-> location,
                             purchase_date |-> purchase_date,
                             expiration_date |-> expiration_date])
            /\ seq' = [seq EXCEPT !.entry = @ + 1]
            /\ last' = Response("inventory_entry_create", {})
       ELSE /\ UNCHANGED <<entries, seq>>
            /\ last' = Response("inventory_entry_create", errors)
    /\ UNCHANGED <<categories, locations, items, logs, today, inflight>>

inventory_entry_update(pk, item, quantity, location, purchase_date, expiration_date) ==
    /\ pk \in DOMAIN entries
    /\ LET errors == InventoryEntryForm_errors(item, quantity, location,
                                               purchase_date, expiration_date) IN
       /\ entries' = IF errors = {}
                     THEN [entries EXCEPT ![pk] =
                             [item |-> item, quantity |-> quantity,
                              storage_location |-> location,
                              purchase_date |-> purchase_date,
                              expiration_date |-> expiration_date]]
                     ELSE entries
       /\ last' = Response("inventory_entry_update", errors)
    /\ UNCHANGED <<categories, locations, items, logs, seq, today, inflight>>

inventory_entry_delete(pk) ==
    /\ pk \in DOMAIN entries
    /\ entries' = Remove(entries, {pk})
    /\ logs' = Remove(logs, CascadeLogs({pk}))
    /\ last' = Response("inventory_entry_delete", {})
    /\ UNCHANGED <<categories, locations, items, seq, today, inflight>>

(***************************************************************************)
(* views.py: usage log.                                                    *)
(***************************************************************************)
(* form.save(): the UsageLog row *)
UsageLogRow(entry, quantity_used) ==
    [inventory_entry |-> entry, quantity_used |-> quantity_used]

(* the instance saved as it was loaded, without the decrement *)
DecrementedEntry_unchanged(row, quantity_used) == row

(* inventory_entry.quantity -= usage_log.quantity_used, on the instance the
   form loaded *)
DecrementedEntry(row, quantity_used) ==
    [row EXCEPT !.quantity = @ - quantity_used]

(* The handler run to completion as one step. *)
usage_log_create(entry, quantity_used) ==
    /\ LET errors == UsageLogForm_errors(entry, quantity_used) IN
       IF errors = {}
       THEN /\ logs' = Insert(logs, seq.log, UsageLogRow(entry, quantity_used))
            /\ entries' = Insert(entries, entry,
                                 DecrementedEntry(entries[entry], quantity_used))
            /\ seq' = [seq EXCEPT !.log = @ + 1]
            /\ last' = Response("usage_log_create", {})
       ELSE /\ UNCHANGED <<logs, entries, seq>>
            /\ last' = Response("usage_log_create", errors)
    /\ UNCHANGED <<categories, locations, items, today, inflight>>

(* The same handler, one step per statement that reads or writes the
   database.  No transaction spans them: each save() commits on its own, so
   the steps of other workers, and their reads, fall in between.

   form.is_valid(): the form loads the entry and validates against it. *)
usage_is_valid(w, entry, quantity_used) ==
    /\ inflight[w].pc = "idle"
    /\ LET errors == UsageLogForm_errors(entry, quantity_used) IN
       IF errors = {}
       THEN /\ inflight' = [inflight EXCEPT ![w] =
                               [pc |-> "valid", entry |-> entry, row |-> entries[entry],
                                quantity_used |-> quantity_used]]
            /\ last' = last
       ELSE /\ inflight' = inflight
            /\ last' = Response("usage_log_create", errors)
    /\ UNCHANGED <<store, today>>

(* usage_log = form.save() *)
usage_form_save(w) ==
    /\ inflight[w].pc = "valid"
    /\ logs' = Insert(logs, seq.log,
                      UsageLogRow(inflight[w].entry, inflight[w].quantity_used))
    /\ seq' = [seq EXCEPT !.log = @ + 1]
    /\ inflight' = [inflight EXCEPT ![w].pc = "saved"]
    /\ UNCHANGED <<categories, locations, items, entries, today, last>>

(* inventory_entry.quantity -= ...; inventory_entry.save(); redirect *)
usage_entry_save(w) ==
    /\ inflight[w].pc = "saved"
    /\ entries' = Insert(entries, inflight[w].entry,
                         DecrementedEntry(inflight[w].row, inflight[w].quantity_used))
    /\ inflight' = [inflight EXCEPT ![w] = Idle]
    /\ last' = Response("usage_log_create", {})
    /\ UNCHANGED <<categories, locations, items, logs, seq, today>>

(* the request ends before its next statement: the worker is killed, or the
   statement raises (a locked database, a lost connection) *)
usage_stop(w) ==
    /\ inflight[w].pc \in {"valid", "saved"}
    /\ inflight' = [inflight EXCEPT ![w] = Idle]
    /\ last' = Response("usage_log_create", {"server_error"})
    /\ UNCHANGED <<store, today>>

(* date.today() moves on between requests *)
Tick ==
    /\ today < MaxToday
    /\ today' = today + 1
    /\ UNCHANGED <<store, last, inflight>>

(***************************************************************************)
(* views.py: read views.  A read changes nothing, so each is the set of    *)
(* rows it returns in the current state.  The search, category and         *)
(* location filters of inventory_list are not applied.                     *)
(***************************************************************************)
inventory_list(status) ==
    CASE status = "expiring" ->
             {e \in DOMAIN entries :
                 /\ entries[e].expiration_date >= today
                 /\ entries[e].expiration_date <= today + ExpiringWindow}
      [] status = "expired" ->
             {e \in DOMAIN entries : entries[e].expiration_date < today}
      [] status = "fresh" ->
             {e \in DOMAIN entries : entries[e].expiration_date > today + ExpiringWindow}
      [] OTHER -> DOMAIN entries

dashboard_expiring_soon_queryset ==
    {e \in DOMAIN entries :
        /\ entries[e].expiration_date >= today
        /\ entries[e].expiration_date <= today + ExpiringWindow
        /\ entries[e].quantity > 0}

(* order_by('expiration_date')[:5]: the order among equal dates is the
   database's choice, so every slice it may return *)
dashboard_expiring_soon ==
    {S \in SUBSET dashboard_expiring_soon_queryset :
        /\ \/ Cardinality(S) = DashboardLimit
           \/ Cardinality(S) < DashboardLimit /\ S = dashboard_expiring_soon_queryset
        /\ \A a \in S, b \in dashboard_expiring_soon_queryset \ S :
               entries[a].expiration_date <= entries[b].expiration_date}

dashboard_expired ==
    {e \in DOMAIN entries :
        entries[e].expiration_date < today /\ entries[e].quantity > 0}

dashboard_expired_count == Cardinality(dashboard_expired)

(* the loop over Item.objects.filter(low_stock_threshold__isnull=False)
   that keeps the items with is_low_stock() *)
dashboard_low_stock_queryset ==
    {i \in DOMAIN items : items[i].low_stock_threshold # NULL /\ is_low_stock(i)}

(* low_stock_items[:5]: the list is in Item name order, which this model
   does not hold, so every five of them may be the first five *)
dashboard_low_stock_items ==
    {S \in SUBSET dashboard_low_stock_queryset :
        \/ Cardinality(S) = DashboardLimit
        \/ Cardinality(S) < DashboardLimit /\ S = dashboard_low_stock_queryset}

(* 'low_stock_count': len(low_stock_items), taken after the slice *)
dashboard_low_stock_count(low_stock_items) == Cardinality(low_stock_items)

(***************************************************************************)
(* Specifications.  Every specification starts from the empty store and    *)
(* takes its steps from the handlers above; they differ in the tables they *)
(* let grow and in the inputs they post.  Room(t, n) lets table t receive  *)
(* its first n rows; keys are never reused, as under AUTOINCREMENT.        *)
(***************************************************************************)
Room(t, n) == seq[t] <= n

Quantities == -1 .. MaxQuantity
UsedQuantities == -1 .. (MaxQuantity + 1)
EntryIds == 1 .. MaxEntries
ItemIds == 1 .. MaxItems

(* one category, one location and one item, created before anything else *)
Setup ==
    \/ Room("category", 1) /\ category_create
    \/ Room("location", 1) /\ location_create
    \/ Room("item", 1) /\ \E c \in categories, l \in locations : item_create(c, l, NULL)

(* The ledger of one item: its entries and the usage logged against them.  *)
Next ==
    \/ Setup
    \/ \E i \in ItemIds : item_delete(i)
    \/ Room("entry", MaxEntries) /\ \E i \in DOMAIN items, q \in Quantities, l \in locations :
           inventory_entry_create(i, q, l, today, today)
    \/ \E e \in DOMAIN entries, q \in Quantities :
           inventory_entry_update(e, entries[e].item, q, entries[e].storage_location,
                                  entries[e].purchase_date, entries[e].expiration_date)
    \/ \E e \in EntryIds : inventory_entry_delete(e)
    \/ Room("log", MaxLogs) /\ \E e \in DOMAIN entries, u \in UsedQuantities :
           usage_log_create(e, u)

Spec == Init /\ [][Next]_vars

(* The dates of one entry of one item: created and edited with dates
   around the current day, used up, and read as the days pass. *)
PurchaseDates == {today - 1, today, today + 1, NULL}
ExpirationDates ==
    {today - 1, today, today + ExpiringWindow, today + ExpiringWindow + 1, NULL}

NextDates ==
    \/ Setup
    \/ Room("entry", 1) /\ \E i \in DOMAIN items, l \in locations,
                               pd \in PurchaseDates, ed \in ExpirationDates :
           inventory_entry_create(i, 1, l, pd, ed)
    \/ \E e \in DOMAIN entries, pd \in PurchaseDates, ed \in ExpirationDates :
           inventory_entry_update(e, entries[e].item, entries[e].quantity,
                                  entries[e].storage_location, pd, ed)
    \/ Room("log", 1) /\ \E e \in DOMAIN entries : usage_log_create(e, 1)
    \/ Tick

SpecDates == Init /\ [][NextDates]_vars

(* The cascade: the entries of up to MaxItems items, each created with two
   units and used one unit at a time, and the deletion of items. *)
NextCascade ==
    \/ Room("category", 1) /\ category_create
    \/ Room("location", 1) /\ location_create
    \/ Room("item", MaxItems) /\ \E c \in categories, l \in locations :
           item_create(c, l, NULL)
    \/ \E i \in DOMAIN items : item_delete(i)
    \/ Room("entry", MaxEntries) /\ \E i \in DOMAIN items, l \in locations :
           inventory_entry_create(i, 2, l, today, today)
    \/ Room("log", MaxLogs) /\ \E e \in DOMAIN entries : usage_log_create(e, 1)

SpecCascade == Init /\ [][NextCascade]_vars

(* The protected references: categories, locations, the items that name
   them and one entry stored at a location of its own choice. *)
NextProtect ==
    \/ Room("category", MaxCategories) /\ category_create
    \/ Room("location", MaxLocations) /\ location_create
    \/ \E c \in categories : category_delete(c)
    \/ \E l \in locations : location_delete(l)
    \/ Room("item", MaxItems) /\ \E c \in categories, l \in locations :
           item_create(c, l, NULL)
    \/ \E i \in DOMAIN items : item_delete(i)
    \/ Room("entry", 1) /\ \E i \in DOMAIN items, l \in locations :
           inventory_entry_create(i, 1, l, today, today)
    \/ \E e \in DOMAIN entries : inventory_entry_delete(e)

SpecProtect == Init /\ [][NextProtect]_vars

(* The usage transaction statement by statement: two workers serve usage
   requests against the entries of one item. *)
Busy == {w \in Workers : inflight[w].pc # "idle"}

NextSteps ==
    \/ Setup
    \/ Room("entry", MaxEntries) /\ \E i \in DOMAIN items, l \in locations :
           inventory_entry_create(i, MaxQuantity, l, today, today)
    \/ Room("log", MaxLogs - Cardinality(Busy)) /\
           \E w \in Workers, e \in DOMAIN entries, u \in 1 .. MaxQuantity :
               usage_is_valid(w, e, u)
    \/ \E w \in Workers : usage_form_save(w)
    \/ \E w \in Workers : usage_entry_save(w)
    \/ \E w \in Workers : usage_stop(w)

SpecSteps == Init /\ [][NextSteps]_vars

(* Two workers serving usage requests statement by statement, every request
   running to its end: what is left is the interleaving alone. *)
NextRace ==
    \/ Setup
    \/ Room("entry", MaxEntries) /\ \E i \in DOMAIN items, l \in locations :
           inventory_entry_create(i, MaxQuantity, l, today, today)
    \/ Room("log", MaxLogs - Cardinality(Busy)) /\
           \E w \in Workers, e \in DOMAIN entries, u \in 1 .. MaxQuantity :
               usage_is_valid(w, e, u)
    \/ \E w \in Workers : usage_form_save(w)
    \/ \E w \in Workers : usage_entry_save(w)

SpecRace == Init /\ [][NextRace]_vars

(* The stock of up to MaxItems items, with and without a low-stock
   threshold: entries are added and used up one unit at a time. *)
Thresholds == {NULL, 0, MaxQuantity}

NextStock ==
    \/ Room("category", 1) /\ category_create
    \/ Room("location", 1) /\ location_create
    \/ Room("item", MaxItems) /\
           \E c \in categories, l \in locations, t \in Thresholds : item_create(c, l, t)
    \/ Room("entry", MaxEntries) /\
           \E i \in DOMAIN items, q \in 1 .. MaxQuantity, l \in locations :
               inventory_entry_create(i, q, l, today, today)
    \/ Room("log", MaxLogs) /\ \E e \in DOMAIN entries : usage_log_create(e, 1)

SpecStock == Init /\ [][NextStock]_vars

(* The dashboard's low-stock report over a catalog of one item more than
   the dashboard lists, with and without thresholds, one of them stocked. *)
NextReport ==
    \/ Room("category", 1) /\ category_create
    \/ Room("location", 1) /\ location_create
    \/ Room("item", DashboardLimit + 1) /\
           \E c \in categories, l \in locations, t \in {NULL, 1} : item_create(c, l, t)
    \/ Room("entry", 1) /\ \E i \in DOMAIN items, l \in locations :
           inventory_entry_create(i, 1, l, today, today)

SpecReport == Init /\ [][NextReport]_vars

(***************************************************************************)
(* Claims about the usage transaction, checked under Spec.                 *)
(***************************************************************************)
NewLogs == (DOMAIN logs') \ (DOMAIN logs)

(* C1: every successful usage_log_create against entry e with quantity_used
   u has 0 < u <= q for the quantity q of e before the request, leaves e
   with exactly q - u, and adds exactly one UsageLog row, recording u for e,
   to the rows that were there. *)
UsageDecrementsExactly ==
    [][last' = Response("usage_log_create", {}) =>
          \A e \in EntryIds, u \in UsedQuantities :
              usage_log_create(e, u) =>
                  /\ e \in DOMAIN entries
                  /\ 0 < u /\ u <= entries[e].quantity
                  /\ entries'[e].quantity = entries[e].quantity - u
                  /\ Cardinality(NewLogs) = 1
                  /\ \A l \in NewLogs :
                         logs'[l] = [inventory_entry |-> e, quantity_used |-> u]
                  /\ \A l \in DOMAIN logs :
                         l \in DOMAIN logs' /\ logs'[l] = logs[l]]_vars

(* a usage that took part of an entry's stock has been answered with success *)
PartialUsageLogged ==
    /\ last = Response("usage_log_create", {})
    /\ \E l \in DOMAIN logs :
          /\ logs[l].quantity_used = 1
          /\ logs[l].inventory_entry \in DOMAIN entries
          /\ entries[logs[l].inventory_entry].quantity = 1

(* C2: in every reachable state every InventoryEntry has quantity >= 0. *)
QuantityNeverNegative == \A e \in DOMAIN entries : entries[e].quantity >= 0

(* usage has taken an entry down to exactly 0, the boundary of the claim *)
EntryDepletedByUsage ==
    /\ last = Response("usage_log_create", {})
    /\ \E l \in DOMAIN logs :
          /\ logs[l].inventory_entry \in DOMAIN entries
          /\ entries[logs[l].inventory_entry].quantity = 0

(* C4: a usage_log_create whose quantity_used is <= 0 or exceeds the entry's
   current quantity is answered with form errors and changes nothing in the
   store: no UsageLog row is added and the entry keeps its quantity. *)
BadUsageRejectedStoreUnchanged ==
    [][last'.op = "usage_log_create" =>
          \A e \in DOMAIN entries, u \in UsedQuantities :
              ((u <= 0 \/ u > entries[e].quantity) /\ usage_log_create(e, u)) =>
                  /\ last'.errors # {}
                  /\ logs' = logs
                  /\ entries' = entries
                  /\ UNCHANGED store]_vars

(* a request for more than an entry holds has been rejected, the entry
   still holding stock *)
OveruseRejected ==
    /\ last = Response("usage_log_create", {"quantity_used"})
    /\ \E e \in DOMAIN entries : entries[e].quantity > 0

(* C10: a UsageLog row is only ever added for an entry whose quantity is > 0
   when the request arrives; a request against an entry whose quantity is 0
   is rejected, the entry not being among the form's choices, and adds no
   UsageLog row. *)
DepletedEntryNotUsable ==
    [][/\ \A l \in NewLogs :
            /\ logs'[l].inventory_entry \in DOMAIN entries
            /\ entries[logs'[l].inventory_entry].quantity > 0
       /\ last'.op = "usage_log_create" =>
            \A e \in DOMAIN entries, u \in UsedQuantities :
                (entries[e].quantity = 0 /\ usage_log_create(e, u)) =>
                    /\ "inventory_entry" \in last'.errors
                    /\ logs' = logs]_vars

(* a request against an entry that usage has depleted has been rejected *)
DepletedEntryRequestRejected ==
    /\ "inventory_entry" \in last.errors
    /\ last.op = "usage_log_create"
    /\ \E l \in DOMAIN logs :
          /\ logs[l].inventory_entry \in DOMAIN entries
          /\ entries[logs[l].inventory_entry].quantity = 0

(* the quantity_used of the usage logs ks of the table ls, added up *)
RECURSIVE SumQuantityUsed(_, _)
SumQuantityUsed(ls, ks) ==
    IF ks = {} THEN 0
    ELSE LET k == CHOOSE x \in ks : TRUE
         IN ls[k].quantity_used + SumQuantityUsed(ls, ks \ {k})

(* what entry e holds plus what its usage logs say was taken from it, in the
   tables es and ls *)
LedgerTotal(es, ls, e) ==
    es[e].quantity +
        SumQuantityUsed(ls, {k \in DOMAIN ls : ls[k].inventory_entry = e})

(* C14 (under Spec, where requests are served one at a time): ledger
   conservation.  An entry starts with no usage log, so its quantity plus
   the quantity_used of its logs is the quantity it was created with, and
   every step that is not an update of that entry, a usage request accepted
   or rejected on any entry included, leaves that total of every entry
   that survives the step as it was. *)
LedgerConserved ==
    [][\A e \in DOMAIN entries' :
          IF e \in DOMAIN entries
          THEN \/ last'.op = "inventory_entry_update" /\ entries'[e] # entries[e]
               \/ LedgerTotal(entries', logs', e) = LedgerTotal(entries, logs, e)
          ELSE LedgerTotal(entries', logs', e) = entries'[e].quantity]_vars

(* an entry that was partly used, and a further usage request on it that
   was rejected *)
LedgerAfterUseAndRejection ==
    /\ last.op = "usage_log_create" /\ last.errors # {}
    /\ \E e \in DOMAIN entries, k \in DOMAIN logs :
           /\ logs[k] = UsageLogRow(e, 1)
           /\ entries[e].quantity = MaxQuantity - 1

(* C12: creating an InventoryEntry with quantity <= 0 is rejected and
   persists nothing; an update that changes the quantity is rejected, and
   persists nothing, when the new quantity is <= 0; an update that posts the
   entry's fields as they are (only the notes edited) is accepted, also for
   an entry that usage has taken to quantity 0. *)
EntryChecksOnlyOnChange ==
    [][last'.op \in {"inventory_entry_create", "inventory_entry_update"} =>
          /\ \A i \in DOMAIN items, q \in Quantities, l \in locations :
                (q <= 0 /\ inventory_entry_create(i, q, l, today, today)) =>
                    (last'.errors # {} /\ UNCHANGED store)
          /\ \A e \in DOMAIN entries, q \in Quantities :
                inventory_entry_update(e, entries[e].item, q,
                                       entries[e].storage_location,
                                       entries[e].purchase_date,
                                       entries[e].expiration_date) =>
                    IF q = entries[e].quantity
                    THEN last'.errors = {}
                    ELSE q <= 0 => (last'.errors # {} /\ UNCHANGED store)]_vars

(* C3 (under SpecSteps): the UsageLog row and the decrement of its entry
   are written together: every step that adds a UsageLog row lowers the
   quantity of the row's entry by its quantity_used, and the step that
   writes the decremented entry adds the row it stands for.  So no state,
   read by another worker or left behind by a request that stopped, holds
   one write without the other. *)
UsageWritesAtomic ==
    [][/\ \A l \in NewLogs :
            LET e == logs'[l].inventory_entry IN
                /\ e \in DOMAIN entries /\ e \in DOMAIN entries'
                /\ entries'[e].quantity = entries[e].quantity - logs'[l].quantity_used
       /\ (\E w \in Workers : usage_entry_save(w)) => NewLogs # {}]_vars

(***************************************************************************)
(* Claims about dates and expiration bands, checked under SpecDates.       *)
(***************************************************************************)
(* C5: after every step every persisted InventoryEntry has expiration_date
   >= purchase_date; a create or an update that posts an expiration_date
   before its purchase_date is answered with an error and persists nothing:
   no row is added, the row under edit keeps its fields. *)
DatesOrdered ==
    [][/\ \A e \in DOMAIN entries' :
            entries'[e].expiration_date >= entries'[e].purchase_date
       /\ \A i \in DOMAIN items, l \in locations,
             pd \in PurchaseDates \ {NULL}, ed \in ExpirationDates \ {NULL} :
            ed < pd =>
              /\ inventory_entry_create(i, 1, l, pd, ed) =>
                     (last'.errors # {} /\ UNCHANGED store)
              /\ \A e \in DOMAIN entries :
                     inventory_entry_update(e, i, entries[e].quantity, l, pd, ed) =>
                         (last'.errors # {} /\ UNCHANGED store)]_vars

(* an entry with both dates equal is stored, and an edit that would have
   put its expiration before its purchase has been rejected *)
BadDatesEditRejected ==
    /\ last = Response("inventory_entry_update", {"expiration_date"})
    /\ \E e \in DOMAIN entries :
          entries[e].expiration_date = entries[e].purchase_date

Bands == {"expired", "expiring", "fresh"}

(* C8: on every current date an entry with quantity > 0 is returned by
   exactly one of the list view's status filters expired (expiration_date <
   today), expiring (today <= expiration_date <= today + 7) and fresh
   (expiration_date > today + 7); an entry expiring today has
   days_until_expiration 0 and is expiring soon, not expired, not fresh; and
   is_expired / is_expiring_soon hold of the entries the expired / expiring
   filters return. *)
BandsPartitionStock ==
    \A e \in DOMAIN entries :
        entries[e].quantity > 0 =>
            /\ Cardinality({b \in Bands : e \in inventory_list(b)}) = 1
            /\ e \in inventory_list("expired") <=> entries[e].expiration_date < today
            /\ e \in inventory_list("expiring") <=>
                   /\ today <= entries[e].expiration_date
                   /\ entries[e].expiration_date <= today + 7
            /\ e \in inventory_list("fresh") <=> entries[e].expiration_date > today + 7
            /\ is_expired(e) <=> e \in inventory_list("expired")
            /\ is_expiring_soon(e) <=> e \in inventory_list("expiring")
            /\ entries[e].expiration_date = today =>
                   /\ days_until_expiration(e) = 0
                   /\ is_expiring_soon(e) /\ ~is_expired(e)
                   /\ e \notin inventory_list("fresh")

(* a stocked entry expires on the current day, a day after it was added *)
StockExpiresToday ==
    /\ today > FirstDay
    /\ \E e \in DOMAIN entries :
          entries[e].quantity > 0 /\ entries[e].expiration_date = today

(* C9: an entry whose quantity is 0 is returned by none of the expiring,
   expired and fresh filters of the inventory list, nor by the dashboard's
   expiring-soon list or its expired count. *)
DepletedInNoBandView ==
    \A e \in DOMAIN entries :
        entries[e].quantity = 0 =>
            /\ \A b \in Bands : e \notin inventory_list(b)
            /\ \A S \in dashboard_expiring_soon : e \notin S
            /\ e \notin dashboard_expired


(***************************************************************************)
(* Claims about deletion.                                                  *)
(***************************************************************************)
EntriesOf(i) == {e \in DOMAIN entries : entries[e].item = i}
LogsOf(i) == {l \in DOMAIN logs : logs[l].inventory_entry \in EntriesOf(i)}

(* C6 (under SpecCascade): deleting an Item removes the item, every
   InventoryEntry that references it and every UsageLog that references one
   of those entries, and nothing else: afterwards no entry names the item,
   no log names a missing entry, and the other items, their entries and
   logs, the categories and the locations are as they were. *)
ItemDeleteCascades ==
    [][\A i \in DOMAIN items :
          item_delete(i) =>
              /\ DOMAIN items' = (DOMAIN items) \ {i}
              /\ \A j \in DOMAIN items' : items'[j] = items[j]
              /\ DOMAIN entries' = (DOMAIN entries) \ EntriesOf(i)
              /\ \A e \in DOMAIN entries' : entries'[e] = entries[e]
              /\ DOMAIN logs' = (DOMAIN logs) \ LogsOf(i)
              /\ \A l \in DOMAIN logs' : logs'[l] = logs[l]
              /\ \A e \in DOMAIN entries' : entries'[e].item \in DOMAIN items'
              /\ \A l \in DOMAIN logs' : logs'[l].inventory_entry \in DOMAIN entries'
              /\ UNCHANGED <<categories, locations>>]_vars

(* an item has been deleted together with a logged entry, and a logged
   entry of another item is still there *)
CascadeSparedOtherItem ==
    /\ last = Response("item_delete", {})
    /\ seq.log - 1 > Cardinality(DOMAIN logs)
    /\ seq.entry - 1 > Cardinality(DOMAIN entries)
    /\ \E l \in DOMAIN logs : logs[l].inventory_entry \in DOMAIN entries

(* C7 (under SpecProtect): deleting a Category that an Item references, or a
   StorageLocation that an Item (as default location) or an InventoryEntry
   references, is answered with an error and leaves the whole store
   unchanged; without such a reference the row, and only the row, goes. *)
ProtectedDeleteBlocked ==
    [][/\ \A c \in categories :
            category_delete(c) =>
                IF \E i \in DOMAIN items : items[i].category = c
                THEN last'.errors # {} /\ UNCHANGED store
                ELSE /\ last'.errors = {}
                     /\ categories' = categories \ {c}
                     /\ UNCHANGED <<locations, items, entries, logs>>
       /\ \A l \in locations :
            location_delete(l) =>
                IF \/ \E i \in DOMAIN items : items[i].default_storage_location = l
                   \/ \E e \in DOMAIN entries : entries[e].storage_location = l
                THEN last'.errors # {} /\ UNCHANGED store
                ELSE /\ last'.errors = {}
                     /\ locations' = locations \ {l}
                     /\ UNCHANGED <<categories, items, entries, logs>>]_vars

(* the deletion of a location that only an entry references has been
   blocked *)
EntryLocationDeleteBlocked ==
    /\ last = Response("location_delete", {"protected"})
    /\ \E l \in locations :
          /\ \E e \in DOMAIN entries : entries[e].storage_location = l
          /\ \A i \in DOMAIN items : items[i].default_storage_location # l
          /\ \A k \in locations \ {l} :
                \E i \in DOMAIN items : items[i].default_storage_location = k


(***************************************************************************)
(* Claims about stock totals, checked under SpecStock.                     *)
(***************************************************************************)
(* the units in stock of an item, counted one by one over its entry rows *)
UnitsOf(i) ==
    UNION {{<<e, k>> : k \in 1 .. entries[e].quantity} : e \in EntriesOf(i)}

(* C11: in every reachable state get_total_quantity(item) is the sum of
   quantity over all entry rows of the item (rows with quantity 0 count and
   add nothing, no rows total 0), and is_low_stock(item) holds exactly when
   low_stock_threshold is set and the total is strictly below it: not with
   the threshold unset, not with the total equal to the threshold. *)
TotalAndLowStock ==
    \A i \in DOMAIN items :
        /\ get_total_quantity(i) = Cardinality(UnitsOf(i))
        /\ EntriesOf(i) = {} => get_total_quantity(i) = 0
        /\ is_low_stock(i) <=>
               /\ items[i].low_stock_threshold # NULL
               /\ Cardinality(UnitsOf(i)) < items[i].low_stock_threshold
        /\ items[i].low_stock_threshold = NULL => ~is_low_stock(i)
        /\ Cardinality(UnitsOf(i)) = items[i].low_stock_threshold => ~is_low_stock(i)

(* an item whose total equals its threshold, one of its rows used up *)
TotalAtThresholdWithDepletedRow ==
    \E i \in DOMAIN items :
        /\ items[i].low_stock_threshold # NULL
        /\ get_total_quantity(i) = items[i].low_stock_threshold
        /\ \E e \in EntriesOf(i) : entries[e].quantity = 0
        /\ \E e \in EntriesOf(i) : entries[e].quantity > 0


(* C13 (under SpecReport): the dashboard's low-stock report contains an
   Item if and only if its low_stock_threshold is set and its total quantity
   is below it, for every Item of the store, and the low-stock count it
   reports is the number of those items. *)
LowStockReportComplete ==
    LET low == {i \in DOMAIN items :
                   /\ items[i].low_stock_threshold # NULL
                   /\ Cardinality(UnitsOf(i)) < items[i].low_stock_threshold}
    IN \A report \in dashboard_low_stock_items :
           /\ \A i \in DOMAIN items : i \in report <=> i \in low
           /\ dashboard_low_stock_count(report) = Cardinality(low)


(* C15 (under SpecRace, where every entry is created with MaxQuantity and
   changes through usage requests only): however two usage requests on an
   entry interleave, its quantity never drops below 0, and once no request
   on it is in progress its quantity is what it had before them less the
   quantity_used of the UsageLog rows they wrote: no decrement is lost. *)
NoDecrementLost ==
    \A e \in DOMAIN entries :
        /\ entries[e].quantity >= 0
        /\ (\A w \in Busy : inflight[w].entry # e) =>
               LedgerTotal(entries, logs, e) = MaxQuantity

====
